---- MODULE Spec2Model ----
(***************************************************************************)
(* Channel manager bot: the command handlers of                            *)
(* telegram_channel_manager_bot_python_advanced_starter.py, the BotConfig  *)
(* record they share, its JSON persistence and the one-shot jobs of        *)
(* schedule_in.                                                            *)
(*                                                                         *)
(* Granularity.  A coroutine runs without interruption up to an await      *)
(* that really suspends it.  The awaits of the handlers are transport      *)
(* calls: reply_text, send_message, send_photo, pin_chat_message.  A step  *)
(* of the model is the code between two such suspensions; the call that    *)
(* ends the step is issued in it (recorded in ev.calls / ev.replies) and   *)
(* its result arrives in a later step (the *_resume / *_raise actions).    *)
(* Nothing follows a handler's final reply_text, so the reply is recorded  *)
(* in the step that issues it.  Handlers suspended at a transport call     *)
(* are kept in inflight, jobs in jobs; other handlers and job callbacks    *)
(* may run while they wait.  channel is the other end of the send calls:   *)
(* what the channel has received.                                          *)
(*                                                                         *)
(* Optional values: None is <<>>, a present value x is <<x>>.              *)
(* Storage is assumed readable and writable (open() does not fail).        *)
(***************************************************************************)
EXTENDS Integers, Sequences, FiniteSets, TLC

VARIABLES cfg, disk, inflight, jobs, channel, ev

vars == <<cfg, disk, inflight, jobs, channel, ev>>

(***************************************************************************)
(* Bounds of the model.                                                    *)
(***************************************************************************)
MaxUser == 1        \* user ids 0..MaxUser send updates
MaxArgs == 2        \* longest argument list of an update
MaxMsgId == 2       \* message ids the transport returns: 1..MaxMsgId
MaxInFlight == 1    \* handlers suspended at a transport call at one time
MaxJobs == 1        \* jobs held by the job queue at one time
MaxAdmins == 2      \* longest admin list of a configuration that is saved

(***************************************************************************)
(* Program constants.                                                      *)
(***************************************************************************)
SecondsPerMinute == 60

None == <<>>
Some(x) == <<x>>
Range(s) == {s[i] : i \in 1..Len(s)}

\* Python truthiness of an Optional[str], a list and an Optional[int]
TruthyStr(o) == o # None /\ o[1] # ""
TruthyList(l) == l # <<>>
TruthyInt(o) == o # None /\ o[1] # 0

(***************************************************************************)
(* Inputs.  context.args is the command text split on whitespace, so a     *)
(* token is never empty.                                                   *)
(***************************************************************************)
\* "0" and "1" are read by int() and float(); as ids they name the users
\* that send updates, so addadmin can add a user who then acts as admin
Tokens == {"@a", "0", "1"}
UserIds == 0..MaxUser
Users == {None} \cup {Some(i) : i \in UserIds}
MsgIds == 1..MaxMsgId

ArgLists == UNION {[1..n -> Tokens] : n \in 0..MaxArgs}

\* update.message.reply_to_message: None, or a message with its photo sizes
\* and caption
ReplyTos ==
    { None,
      Some([photo |-> <<>>, caption |-> None]),
      Some([photo |-> <<"f_small", "f_big">>, caption |-> None]),
      Some([photo |-> <<"f_small", "f_big">>, caption |-> Some("cap")]) }

\* the updates of a command that reads context.args, of one that reads
\* neither the arguments nor the replied-to message, and of post_photo
ArgUpdates == [user : Users, args : ArgLists, reply_to : {None}]
PlainUpdates == [user : Users, args : {<<>>}, reply_to : {None}]
PhotoUpdates == [user : Users, args : {<<>>}, reply_to : ReplyTos]

\* int(s): the value, or None for ValueError
ParseInt(s) ==
    CASE s = "0" -> Some(0)
      [] s = "1" -> Some(1)
      [] OTHER -> None

\* float(s): the value, or None for ValueError
ParseFloat(s) ==
    CASE s = "0" -> Some(0)
      [] s = "1" -> Some(1)
      [] OTHER -> None

\* " ".join(args)
RECURSIVE Join(_)
Join(args) ==
    IF args = <<>> THEN ""
    ELSE IF Len(args) = 1 THEN args[1]
    ELSE args[1] \o " " \o Join(Tail(args))

(***************************************************************************)
(* BotConfig and its persistence.                                          *)
(***************************************************************************)
BotConfig(channel_id, admin_ids, last_channel_message_id) ==
    [channel_id |-> channel_id,
     admin_ids |-> admin_ids,
     last_channel_message_id |-> last_channel_message_id]

\* json.dump(asdict(self)): every field is written; None becomes null
\* an encoder that writes the text of None instead of null
JsonOptStr_none_as_text(o) == IF o = None THEN [str |-> "None"] ELSE [str |-> o[1]]

JsonOptStr(o) == IF o = None THEN [null |-> TRUE] ELSE [str |-> o[1]]
JsonOptInt(o) == IF o = None THEN [null |-> TRUE] ELSE [num |-> o[1]]
JsonIntList(l) == [arr |-> [i \in 1..Len(l) |-> [num |-> l[i]]]]

asdict_json(c) ==
    [channel_id |-> JsonOptStr(c.channel_id),
     admin_ids |-> JsonIntList(c.admin_ids),
     last_channel_message_id |-> JsonOptInt(c.last_channel_message_id)]

\* the file after save(): open(path, "w") replaces the whole content
save(c) == Some(asdict_json(c))

\* json.load: null becomes None, a string a str, a number an int
PyOptStr(j) == IF "null" \in DOMAIN j THEN None ELSE Some(j.str)
PyOptInt(j) == IF "null" \in DOMAIN j THEN None ELSE Some(j.num)
PyIntList(j) == [i \in 1..Len(j.arr) |-> j.arr[i].num]

\* BotConfig.load: the stored record, or the default when there is no file
load(file) ==
    IF file # None
    THEN BotConfig(PyOptStr(file[1].channel_id),
                   PyIntList(file[1].admin_ids),
                   PyOptInt(file[1].last_channel_message_id))
    ELSE BotConfig(None, <<>>, None)

(***************************************************************************)
(* Authorization.                                                          *)
(***************************************************************************)
\* a gate that lets everyone in while no admin exists
is_admin_open_when_empty(user, c) ==
    /\ user # None
    /\ (TruthyList(c.admin_ids) => user[1] \in Range(c.admin_ids))

is_admin(user, c) ==
    /\ user # None
    /\ TruthyList(c.admin_ids)
    /\ user[1] \in Range(c.admin_ids)

\* admin_guard returns is_admin; when it is false it has sent AdminsOnly
admin_guard(user, c) == is_admin(user, c)

(***************************************************************************)
(* What the last step did: the code run (op), the acting user, the         *)
(* configuration and the file the step started from (cfg0, disk0), the     *)
(* replies sent to the invoker, the transport calls issued to the          *)
(* channel, the number of save() calls and of jobs registered and, in a    *)
(* step of a job, that job (task); returned is the message id             *)
(* the awaited transport call returned.                                    *)
(***************************************************************************)
Event(op, user) ==
    [op |-> op, user |-> user, cfg0 |-> cfg, disk0 |-> disk,
     replies |-> <<>>, calls |-> <<>>, saves |-> 0, registered |-> 0,
     task |-> None, returned |-> None]

Reply(m) == [msg |-> m]

\* a handler that only replies and returns
ReplyOnly(op, u, m) ==
    /\ ev' = [Event(op, u.user) EXCEPT !.replies = <<Reply(m)>>]
    /\ UNCHANGED <<cfg, disk, inflight, jobs, channel>>

RemoveAt(s, i) == [k \in 1..(Len(s) - 1) |-> IF k < i THEN s[k] ELSE s[k + 1]]

(***************************************************************************)
(* The channel, as the Bot API keeps it: newest is the id of the message   *)
(* published to it most recently; handlers[i] and jobs[j] hold the id of   *)
(* the message that the pending send call of inflight[i] and of jobs[j]    *)
(* has published, None while it has published none.  A send call publishes *)
(* its message at some moment between being issued and returning; a call   *)
(* that raises has published nothing.                                      *)
(***************************************************************************)
Quiet == [newest |-> None, handlers |-> <<>>, jobs |-> <<>>]

CallIssued == [channel EXCEPT !.handlers = Append(@, None)]
JobAdded == [channel EXCEPT !.jobs = Append(@, None)]

\* the send call of inflight[i] returns message id m
HandlerReturned(i, m) ==
    [channel EXCEPT !.newest = IF channel.handlers[i] = None THEN Some(m) ELSE @,
                    !.handlers = RemoveAt(@, i)]
HandlerGone(i) == [channel EXCEPT !.handlers = RemoveAt(@, i)]

\* the send call of jobs[j] returns message id m
JobReturned(j, m) ==
    [channel EXCEPT !.newest = IF channel.jobs[j] = None THEN Some(m) ELSE @,
                    !.jobs = RemoveAt(@, j)]
JobGone(j) == [channel EXCEPT !.jobs = RemoveAt(@, j)]

Init ==
    /\ disk = None
    /\ cfg = load(None)
    /\ inflight = <<>>
    /\ jobs = <<>>
    /\ channel = Quiet
    /\ ev = Event("main", None)

(***************************************************************************)
(* Command handlers, each up to its first suspending transport call.       *)
(***************************************************************************)
\* start without the test for an empty admin list
start_always_bootstraps(u) ==
    IF u.user # None
    THEN /\ cfg' = [cfg EXCEPT !.admin_ids = <<u.user[1]>>]
         /\ disk' = save(cfg')
         /\ ev' = [Event("start", u.user) EXCEPT
                       !.saves = 1,
                       !.replies = <<Reply("greeting_first_admin")>>]
         /\ UNCHANGED <<inflight, jobs, channel>>
    ELSE ReplyOnly("start", u, "greeting")

\* start that leaves the file as it was
start_without_save(u) ==
    IF u.user # None /\ ~TruthyList(cfg.admin_ids)
    THEN /\ cfg' = [cfg EXCEPT !.admin_ids = <<u.user[1]>>]
         /\ ev' = [Event("start", u.user) EXCEPT
                       !.replies = <<Reply("greeting_first_admin")>>]
         /\ UNCHANGED <<disk, inflight, jobs, channel>>
    ELSE ReplyOnly("start", u, "greeting")

start(u) ==
    IF u.user # None /\ ~TruthyList(cfg.admin_ids)
    THEN /\ cfg' = [cfg EXCEPT !.admin_ids = <<u.user[1]>>]
         /\ disk' = save(cfg')
         /\ ev' = [Event("start", u.user) EXCEPT
                       !.saves = 1,
                       !.replies = <<Reply("greeting_first_admin")>>]
         /\ UNCHANGED <<inflight, jobs, channel>>
    ELSE ReplyOnly("start", u, "greeting")

help_cmd(u) == ReplyOnly("help", u, "help")

\* setchannel that forgets the last message id of the channel it leaves
setchannel_resets_last(u) ==
    IF ~admin_guard(u.user, cfg) THEN ReplyOnly("setchannel", u, "admins_only")
    ELSE IF u.args = <<>> THEN ReplyOnly("setchannel", u, "usage_setchannel")
    ELSE /\ cfg' = [cfg EXCEPT !.channel_id = Some(u.args[1]),
                               !.last_channel_message_id = None]
         /\ disk' = save(cfg')
         /\ ev' = [Event("setchannel", u.user) EXCEPT
                       !.saves = 1,
                       !.replies = <<[msg |-> "channel_set", channel |-> u.args[1]]>>]
         /\ UNCHANGED <<inflight, jobs, channel>>

\* setchannel that takes a missing argument as a request to clear the channel
setchannel_clears_without_argument(u) ==
    IF ~admin_guard(u.user, cfg) THEN ReplyOnly("setchannel", u, "admins_only")
    ELSE /\ cfg' = [cfg EXCEPT !.channel_id =
                        IF u.args = <<>> THEN None ELSE Some(u.args[1])]
         /\ disk' = save(cfg')
         /\ ev' = [Event("setchannel", u.user) EXCEPT
                       !.saves = 1,
                       !.replies = <<[msg |-> "channel_set",
                                      channel |-> IF u.args = <<>> THEN ""
                                                  ELSE u.args[1]]>>]
         /\ UNCHANGED <<inflight, jobs, channel>>

setchannel(u) ==
    IF ~admin_guard(u.user, cfg) THEN ReplyOnly("setchannel", u, "admins_only")
    ELSE IF u.args = <<>> THEN ReplyOnly("setchannel", u, "usage_setchannel")
    ELSE /\ cfg' = [cfg EXCEPT !.channel_id = Some(u.args[1])]
         /\ disk' = save(cfg')
         /\ ev' = [Event("setchannel", u.user) EXCEPT
                       !.saves = 1,
                       !.replies = <<[msg |-> "channel_set", channel |-> u.args[1]]>>]
         /\ UNCHANGED <<inflight, jobs, channel>>

status(u) ==
    /\ ev' = [Event("status", u.user) EXCEPT
                  !.replies = <<[msg |-> "status",
                                 channel |-> cfg.channel_id,
                                 admins |-> cfg.admin_ids,
                                 last |-> cfg.last_channel_message_id]>>]
    /\ UNCHANGED <<cfg, disk, inflight, jobs, channel>>

\* addadmin without the membership test
addadmin_always_appends(u) ==
    IF ~admin_guard(u.user, cfg) THEN ReplyOnly("addadmin", u, "admins_only")
    ELSE IF u.args = <<>> THEN ReplyOnly("addadmin", u, "usage_addadmin")
    ELSE IF ParseInt(u.args[1]) = None THEN ReplyOnly("addadmin", u, "uid_not_numeric")
    ELSE LET uid == ParseInt(u.args[1])[1]
         IN /\ cfg' = [cfg EXCEPT !.admin_ids = Append(@, uid)]
            /\ disk' = save(cfg')
            /\ ev' = [Event("addadmin", u.user) EXCEPT
                          !.saves = 1,
                          !.replies = <<[msg |-> "admin_added", uid |-> uid]>>]
            /\ UNCHANGED <<inflight, jobs, channel>>

\* addadmin that assigns a new list instead of appending
addadmin_replaces_list(u) ==
    IF ~admin_guard(u.user, cfg) THEN ReplyOnly("addadmin", u, "admins_only")
    ELSE IF u.args = <<>> THEN ReplyOnly("addadmin", u, "usage_addadmin")
    ELSE IF ParseInt(u.args[1]) = None THEN ReplyOnly("addadmin", u, "uid_not_numeric")
    ELSE LET uid == ParseInt(u.args[1])[1]
             added == [msg |-> "admin_added", uid |-> uid]
         IN IF uid \notin Range(cfg.admin_ids)
            THEN /\ cfg' = [cfg EXCEPT !.admin_ids = <<uid>>]
                 /\ disk' = save(cfg')
                 /\ ev' = [Event("addadmin", u.user) EXCEPT
                               !.saves = 1, !.replies = <<added>>]
                 /\ UNCHANGED <<inflight, jobs, channel>>
            ELSE /\ ev' = [Event("addadmin", u.user) EXCEPT
                               !.replies = <<added>>]
                 /\ UNCHANGED <<cfg, disk, inflight, jobs, channel>>

\* addadmin that appends to the list it read one step earlier
addadmin_from_stale_read(u) ==
    IF ~admin_guard(u.user, cfg) THEN ReplyOnly("addadmin", u, "admins_only")
    ELSE IF u.args = <<>> THEN ReplyOnly("addadmin", u, "usage_addadmin")
    ELSE IF ParseInt(u.args[1]) = None THEN ReplyOnly("addadmin", u, "uid_not_numeric")
    ELSE LET uid == ParseInt(u.args[1])[1]
             added == [msg |-> "admin_added", uid |-> uid]
         IN IF uid \notin Range(cfg.admin_ids)
            THEN /\ cfg' = [cfg EXCEPT !.admin_ids = Append(ev.cfg0.admin_ids, uid)]
                 /\ disk' = save(cfg')
                 /\ ev' = [Event("addadmin", u.user) EXCEPT
                               !.saves = 1, !.replies = <<added>>]
                 /\ UNCHANGED <<inflight, jobs, channel>>
            ELSE /\ ev' = [Event("addadmin", u.user) EXCEPT
                               !.replies = <<added>>]
                 /\ UNCHANGED <<cfg, disk, inflight, jobs, channel>>

addadmin(u) ==
    IF ~admin_guard(u.user, cfg) THEN ReplyOnly("addadmin", u, "admins_only")
    ELSE IF u.args = <<>> THEN ReplyOnly("addadmin", u, "usage_addadmin")
    ELSE IF ParseInt(u.args[1]) = None THEN ReplyOnly("addadmin", u, "uid_not_numeric")
    ELSE LET uid == ParseInt(u.args[1])[1]
             added == [msg |-> "admin_added", uid |-> uid]
         IN IF uid \notin Range(cfg.admin_ids)
            THEN /\ cfg' = [cfg EXCEPT !.admin_ids = Append(@, uid)]
                 /\ disk' = save(cfg')
                 /\ ev' = [Event("addadmin", u.user) EXCEPT
                               !.saves = 1, !.replies = <<added>>]
                 /\ UNCHANGED <<inflight, jobs, channel>>
            ELSE /\ ev' = [Event("addadmin", u.user) EXCEPT
                               !.replies = <<added>>]
                 /\ UNCHANGED <<cfg, disk, inflight, jobs, channel>>

\* issue a transport call to the channel and suspend until it returns
Suspend(op, u, call) ==
    /\ Len(inflight) < MaxInFlight
    /\ inflight' = Append(inflight, op)
    /\ ev' = [Event(op, u.user) EXCEPT !.calls = <<call>>]
    /\ channel' = CallIssued
    /\ UNCHANGED <<cfg, disk, jobs>>

\* post without the test for a configured channel
post_without_channel_test(u) ==
    IF ~admin_guard(u.user, cfg) THEN ReplyOnly("post", u, "admins_only")
    ELSE IF u.args = <<>> THEN ReplyOnly("post", u, "usage_post")
    ELSE Suspend("post", u,
                 [api |-> "send_message", chat_id |-> cfg.channel_id,
                  text |-> Join(u.args), parse_mode |-> "HTML",
                  disable_web_page_preview |-> Some(FALSE)])

post(u) ==
    IF ~admin_guard(u.user, cfg) THEN ReplyOnly("post", u, "admins_only")
    ELSE IF ~TruthyStr(cfg.channel_id) THEN ReplyOnly("post", u, "set_channel_first")
    ELSE IF u.args = <<>> THEN ReplyOnly("post", u, "usage_post")
    ELSE Suspend("post", u,
                 [api |-> "send_message", chat_id |-> cfg.channel_id,
                  text |-> Join(u.args), parse_mode |-> "HTML",
                  disable_web_page_preview |-> Some(FALSE)])

\* post_photo without the test for a configured channel
post_photo_without_channel_test(u) ==
    IF ~admin_guard(u.user, cfg) THEN ReplyOnly("post_photo", u, "admins_only")
    ELSE IF u.reply_to = None \/ u.reply_to[1].photo = <<>>
         THEN ReplyOnly("post_photo", u, "usage_post_photo")
    ELSE LET reply == u.reply_to[1]
             caption == IF reply.caption = None THEN "" ELSE reply.caption[1]
             file_id == reply.photo[Len(reply.photo)]
         IN Suspend("post_photo", u,
                    [api |-> "send_photo", chat_id |-> cfg.channel_id,
                     photo |-> file_id, caption |-> caption])

post_photo(u) ==
    IF ~admin_guard(u.user, cfg) THEN ReplyOnly("post_photo", u, "admins_only")
    ELSE IF ~TruthyStr(cfg.channel_id) THEN ReplyOnly("post_photo", u, "set_channel_first")
    ELSE IF u.reply_to = None \/ u.reply_to[1].photo = <<>>
         THEN ReplyOnly("post_photo", u, "usage_post_photo")
    ELSE LET reply == u.reply_to[1]
             caption == IF reply.caption = None THEN "" ELSE reply.caption[1]
             file_id == reply.photo[Len(reply.photo)]
         IN Suspend("post_photo", u,
                    [api |-> "send_photo", chat_id |-> cfg.channel_id,
                     photo |-> file_id, caption |-> caption])

\* schedule_in that accepts a single argument
schedule_in_arity_off_by_one(u) ==
    IF ~admin_guard(u.user, cfg) THEN ReplyOnly("schedule_in", u, "admins_only")
    ELSE IF ~TruthyStr(cfg.channel_id) THEN ReplyOnly("schedule_in", u, "set_channel_first")
    ELSE IF Len(u.args) < 1 THEN ReplyOnly("schedule_in", u, "usage_schedule_in")
    ELSE IF ParseFloat(u.args[1]) = None
         THEN ReplyOnly("schedule_in", u, "minutes_not_numeric")
    ELSE LET minutes == ParseFloat(u.args[1])[1]
             text == Join(Tail(u.args))
         IN /\ Len(jobs) < MaxJobs
            /\ jobs' = Append(jobs, [text |-> text,
                                     when |-> minutes * SecondsPerMinute,
                                     remaining |-> minutes * SecondsPerMinute,
                                     pc |-> "waiting"])
            /\ ev' = [Event("schedule_in", u.user) EXCEPT
                          !.registered = 1,
                          !.replies = <<[msg |-> "scheduled", minutes |-> minutes]>>]
            /\ channel' = JobAdded
            /\ UNCHANGED <<cfg, disk, inflight>>

schedule_in(u) ==
    IF ~admin_guard(u.user, cfg) THEN ReplyOnly("schedule_in", u, "admins_only")
    ELSE IF ~TruthyStr(cfg.channel_id) THEN ReplyOnly("schedule_in", u, "set_channel_first")
    ELSE IF Len(u.args) < 2 THEN ReplyOnly("schedule_in", u, "usage_schedule_in")
    ELSE IF ParseFloat(u.args[1]) = None
         THEN ReplyOnly("schedule_in", u, "minutes_not_numeric")
    ELSE LET minutes == ParseFloat(u.args[1])[1]
             text == Join(Tail(u.args))
         IN /\ Len(jobs) < MaxJobs
            /\ jobs' = Append(jobs, [text |-> text,
                                     when |-> minutes * SecondsPerMinute,
                                     remaining |-> minutes * SecondsPerMinute,
                                     pc |-> "waiting"])
            /\ ev' = [Event("schedule_in", u.user) EXCEPT
                          !.registered = 1,
                          !.replies = <<[msg |-> "scheduled", minutes |-> minutes]>>]
            /\ channel' = JobAdded
            /\ UNCHANGED <<cfg, disk, inflight>>

\* pin_last that tests only the channel
pin_last_without_message_test(u) ==
    IF ~admin_guard(u.user, cfg) THEN ReplyOnly("pin_last", u, "admins_only")
    ELSE IF ~TruthyStr(cfg.channel_id)
         THEN ReplyOnly("pin_last", u, "no_recent_message")
    ELSE Suspend("pin_last", u,
                 [api |-> "pin_chat_message", chat_id |-> cfg.channel_id,
                  message_id |-> cfg.last_channel_message_id])

pin_last(u) ==
    IF ~admin_guard(u.user, cfg) THEN ReplyOnly("pin_last", u, "admins_only")
    ELSE IF ~TruthyStr(cfg.channel_id) \/ ~TruthyInt(cfg.last_channel_message_id)
         THEN ReplyOnly("pin_last", u, "no_recent_message")
    ELSE Suspend("pin_last", u,
                 [api |-> "pin_chat_message", chat_id |-> cfg.channel_id,
                  message_id |-> cfg.last_channel_message_id])

(***************************************************************************)
(* The transport call of a suspended handler returns or raises.            *)
(***************************************************************************)
\* post that forgets to save after recording the message id
post_resume_without_save(i, m) ==
    /\ inflight[i] = "post"
    /\ channel.handlers[i] \in {None, Some(m)}
    /\ cfg' = [cfg EXCEPT !.last_channel_message_id = Some(m)]
    /\ inflight' = RemoveAt(inflight, i)
    /\ ev' = [Event("post_resume", None) EXCEPT !.returned = Some(m),
                                                !.replies = <<Reply("posted")>>]
    /\ channel' = HandlerReturned(i, m)
    /\ UNCHANGED <<disk, jobs>>

\* post, after send_message returned msg with msg.message_id = m
post_resume(i, m) ==
    /\ inflight[i] = "post"
    /\ channel.handlers[i] \in {None, Some(m)}
    /\ cfg' = [cfg EXCEPT !.last_channel_message_id = Some(m)]
    /\ disk' = save(cfg')
    /\ inflight' = RemoveAt(inflight, i)
    /\ ev' = [Event("post_resume", None) EXCEPT !.returned = Some(m),
                                !.saves = 1, !.replies = <<Reply("posted")>>]
    /\ channel' = HandlerReturned(i, m)
    /\ UNCHANGED jobs

\* send_message raised: the exception leaves the handler, which has no
\* try block; the application logs it
post_raise(i) ==
    /\ inflight[i] = "post"
    /\ channel.handlers[i] = None
    /\ inflight' = RemoveAt(inflight, i)
    /\ ev' = Event("post_raise", None)
    /\ channel' = HandlerGone(i)
    /\ UNCHANGED <<cfg, disk, jobs>>

post_photo_resume(i, m) ==
    /\ inflight[i] = "post_photo"
    /\ channel.handlers[i] \in {None, Some(m)}
    /\ cfg' = [cfg EXCEPT !.last_channel_message_id = Some(m)]
    /\ disk' = save(cfg')
    /\ inflight' = RemoveAt(inflight, i)
    /\ ev' = [Event("post_photo_resume", None) EXCEPT !.returned = Some(m),
                                !.saves = 1, !.replies = <<Reply("photo_posted")>>]
    /\ channel' = HandlerReturned(i, m)
    /\ UNCHANGED jobs

post_photo_raise(i) ==
    /\ inflight[i] = "post_photo"
    /\ channel.handlers[i] = None
    /\ inflight' = RemoveAt(inflight, i)
    /\ ev' = Event("post_photo_raise", None)
    /\ channel' = HandlerGone(i)
    /\ UNCHANGED <<cfg, disk, jobs>>

pin_last_resume(i) ==
    /\ inflight[i] = "pin_last"
    /\ inflight' = RemoveAt(inflight, i)
    /\ ev' = [Event("pin_last_resume", None) EXCEPT !.replies = <<Reply("pinned")>>]
    /\ channel' = HandlerGone(i)
    /\ UNCHANGED <<cfg, disk, jobs>>

\* pin_last without its try block: the exception leaves the handler
pin_last_raise_unhandled(i) ==
    /\ inflight[i] = "pin_last"
    /\ inflight' = RemoveAt(inflight, i)
    /\ ev' = Event("pin_last_raise", None)
    /\ channel' = HandlerGone(i)
    /\ UNCHANGED <<cfg, disk, jobs>>

\* pin_chat_message raised: except Exception logs and replies
pin_last_raise(i) ==
    /\ inflight[i] = "pin_last"
    /\ inflight' = RemoveAt(inflight, i)
    /\ ev' = [Event("pin_last_raise", None) EXCEPT !.replies = <<Reply("pin_error")>>]
    /\ channel' = HandlerGone(i)
    /\ UNCHANGED <<cfg, disk, jobs>>

(***************************************************************************)
(* The job queue: run_once(job_callback, when) runs the callback once,     *)
(* when seconds after the registration.  remaining is the time left.       *)
(***************************************************************************)
Min(S) == CHOOSE x \in S : \A y \in S : x <= y

Pending == {jobs[j].remaining : j \in {k \in 1..Len(jobs) : jobs[k].remaining > 0}}

\* time passes up to the next deadline
Tick ==
    /\ Pending # {}
    /\ jobs' = [j \in 1..Len(jobs) |->
                   IF jobs[j].remaining > 0
                   THEN [jobs[j] EXCEPT !.remaining = @ - Min(Pending)]
                   ELSE jobs[j]]
    /\ ev' = Event("tick", None)
    /\ UNCHANGED <<cfg, disk, inflight, channel>>

\* a callback that publishes to the channel of a copy of the configuration
\* taken one step earlier
job_callback_stale_channel(j) ==
    /\ jobs[j].pc = "waiting"
    /\ jobs[j].remaining <= 0
    /\ LET call == [api |-> "send_message", chat_id |-> ev.cfg0.channel_id,
                    text |-> jobs[j].text, parse_mode |-> "HTML",
                    disable_web_page_preview |-> None]
       IN /\ jobs' = [jobs EXCEPT ![j].pc = "sending"]
          /\ ev' = [Event("job_callback", None) EXCEPT
                        !.task = Some(jobs[j]), !.calls = <<call>>]
    /\ UNCHANGED <<cfg, disk, inflight, channel>>

\* job_callback up to its send_message; cfg is the live object of the closure
job_callback(j) ==
    /\ jobs[j].pc = "waiting"
    /\ jobs[j].remaining <= 0
    /\ LET call == [api |-> "send_message", chat_id |-> cfg.channel_id,
                    text |-> jobs[j].text, parse_mode |-> "HTML",
                    disable_web_page_preview |-> None]
       IN /\ jobs' = [jobs EXCEPT ![j].pc = "sending"]
          /\ ev' = [Event("job_callback", None) EXCEPT
                        !.task = Some(jobs[j]), !.calls = <<call>>]
    /\ UNCHANGED <<cfg, disk, inflight, channel>>

\* a callback that records the message id in memory only
job_callback_resume_without_save(j, m) ==
    /\ jobs[j].pc = "sending"
    /\ channel.jobs[j] \in {None, Some(m)}
    /\ cfg' = [cfg EXCEPT !.last_channel_message_id = Some(m)]
    /\ jobs' = RemoveAt(jobs, j)
    /\ ev' = [Event("job_callback_resume", None) EXCEPT
                  !.task = Some(jobs[j]), !.returned = Some(m)]
    /\ channel' = JobReturned(j, m)
    /\ UNCHANGED <<disk, inflight>>

job_callback_resume(j, m) ==
    /\ jobs[j].pc = "sending"
    /\ channel.jobs[j] \in {None, Some(m)}
    /\ cfg' = [cfg EXCEPT !.last_channel_message_id = Some(m)]
    /\ disk' = save(cfg')
    /\ jobs' = RemoveAt(jobs, j)
    /\ ev' = [Event("job_callback_resume", None) EXCEPT
                  !.task = Some(jobs[j]), !.returned = Some(m), !.saves = 1]
    /\ channel' = JobReturned(j, m)
    /\ UNCHANGED inflight

\* a job queue that runs the job again after its callback raised
job_callback_raise_requeues(j) ==
    /\ jobs[j].pc = "sending"
    /\ channel.jobs[j] = None
    /\ jobs' = [jobs EXCEPT ![j].pc = "waiting"]
    /\ ev' = [Event("job_callback_raise", None) EXCEPT
                  !.task = Some(jobs[j])]
    /\ UNCHANGED <<cfg, disk, inflight, channel>>

\* send_message raised in the callback: the job queue logs it, the job is over
job_callback_raise(j) ==
    /\ jobs[j].pc = "sending"
    /\ channel.jobs[j] = None
    /\ jobs' = RemoveAt(jobs, j)
    /\ ev' = [Event("job_callback_raise", None) EXCEPT
                  !.task = Some(jobs[j])]
    /\ channel' = JobGone(j)
    /\ UNCHANGED <<cfg, disk, inflight>>

(***************************************************************************)
(* The process stops and main() runs again: the configuration is loaded    *)
(* from the file; suspended handlers and the jobs of the queue are gone.   *)
(***************************************************************************)
main ==
    /\ cfg' = load(disk)
    /\ inflight' = <<>>
    /\ jobs' = <<>>
    /\ ev' = Event("main", None)
    /\ channel' = [channel EXCEPT !.handlers = <<>>, !.jobs = <<>>]
    /\ UNCHANGED disk

Next ==
    \/ \E u \in PlainUpdates : start(u)
    \/ \E u \in PlainUpdates : help_cmd(u)
    \/ \E u \in ArgUpdates : setchannel(u)
    \/ \E u \in PlainUpdates : status(u)
    \/ \E u \in ArgUpdates : addadmin(u)
    \/ \E u \in ArgUpdates : post(u)
    \/ \E u \in PhotoUpdates : post_photo(u)
    \/ \E u \in ArgUpdates : schedule_in(u)
    \/ \E u \in PlainUpdates : pin_last(u)
    \/ \E i \in 1..Len(inflight), m \in MsgIds : post_resume(i, m)
    \/ \E i \in 1..Len(inflight) : post_raise(i)
    \/ \E i \in 1..Len(inflight), m \in MsgIds : post_photo_resume(i, m)
    \/ \E i \in 1..Len(inflight) : post_photo_raise(i)
    \/ \E i \in 1..Len(inflight) : pin_last_resume(i)
    \/ \E i \in 1..Len(inflight) : pin_last_raise(i)
    \/ Tick
    \/ \E j \in 1..Len(jobs) : job_callback(j)
    \/ \E j \in 1..Len(jobs), m \in MsgIds : job_callback_resume(j, m)
    \/ \E j \in 1..Len(jobs) : job_callback_raise(j)
    \/ main

Spec == Init /\ [][Next]_vars

(***************************************************************************)
(* The job queue runs on the event loop of run_polling: while the process  *)
(* lives, time passes up to the next deadline, a job whose deadline has    *)
(* passed is run, and an awaited send_message returns or raises.  Updates  *)
(* and restarts may or may not come.                                       *)
(***************************************************************************)
JobFires == \E j \in 1..Len(jobs) : job_callback(j)
JobReturns ==
    \/ \E j \in 1..Len(jobs), m \in MsgIds : job_callback_resume(j, m)
    \/ \E j \in 1..Len(jobs) : job_callback_raise(j)

FairSpec ==
    /\ Spec
    /\ WF_vars(Tick)
    /\ WF_vars(JobFires)
    /\ WF_vars(JobReturns)

(***************************************************************************)
(* BotConfig.save and BotConfig.load on their own, applied to              *)
(* configurations drawn from bounded sets: every combination of an absent, *)
(* empty or non-empty channel_id, a list of integers (negative and         *)
(* repeated ones included) and an absent, zero or non-zero message id.     *)
(***************************************************************************)
ConfigStrs == {"", "@a", "-1001"}
ConfigInts == {-1, 0, 1}
Configs ==
    { BotConfig(c, a, l) :
        c \in {None} \cup {Some(x) : x \in ConfigStrs},
        a \in UNION {[1..n -> ConfigInts] : n \in 0..MaxAdmins},
        l \in {None} \cup {Some(i) : i \in ConfigInts} }

InitRoundTrip ==
    /\ cfg \in Configs
    /\ disk = None
    /\ inflight = <<>>
    /\ jobs = <<>>
    /\ channel = Quiet
    /\ ev = Event("main", None)

\* cfg.save()
cfg_save ==
    /\ disk' = save(cfg)
    /\ ev' = [Event("save", None) EXCEPT !.saves = 1]
    /\ UNCHANGED <<cfg, inflight, jobs, channel>>

\* cfg = BotConfig.load()
cfg_load ==
    /\ cfg' = load(disk)
    /\ ev' = Event("load", None)
    /\ UNCHANGED <<disk, inflight, jobs, channel>>

NextRoundTrip == cfg_save \/ cfg_load

SpecRoundTrip == InitRoundTrip /\ [][NextRoundTrip]_vars

(***************************************************************************)
(* A job registered while the channel is ScheduledUnder, followed by        *)
(* setchannel updates and the job queue.  The initial states are the states *)
(* of Spec after start by user 0, setchannel ScheduledUnder and an accepted *)
(* schedule_in; no further job is registered, so every job that fires was   *)
(* registered under ScheduledUnder.                                         *)
(***************************************************************************)
ScheduledUnder == "@a"

InitRechannel ==
    /\ cfg = BotConfig(Some(ScheduledUnder), <<0>>, None)
    /\ disk = save(cfg)
    /\ inflight = <<>>
    /\ \E minutes \in {0, 1}, text \in Tokens :
          /\ jobs = <<[text |-> text,
                       when |-> minutes * SecondsPerMinute,
                       remaining |-> minutes * SecondsPerMinute,
                       pc |-> "waiting"]>>
          /\ channel = [Quiet EXCEPT !.jobs = <<None>>]
          /\ ev = [Event("schedule_in", Some(0)) EXCEPT
                       !.registered = 1,
                       !.replies = <<[msg |-> "scheduled", minutes |-> minutes]>>]

NextRechannel ==
    \/ \E u \in ArgUpdates : setchannel(u)
    \/ \E u \in PlainUpdates : status(u)
    \/ Tick
    \/ \E j \in 1..Len(jobs) : job_callback(j)
    \/ \E j \in 1..Len(jobs), m \in MsgIds : job_callback_resume(j, m)
    \/ \E j \in 1..Len(jobs) : job_callback_raise(j)

SpecRechannel == InitRechannel /\ [][NextRechannel]_vars

(***************************************************************************)
(* A post and a job that publish at overlapping times.  Spec sees a send   *)
(* call when it is issued and when it returns; here the moment in between  *)
(* at which the channel receives the message is a step of its own, so that *)
(* two pending calls can publish in one order and return in the other.     *)
(* One admin, user 0, sends the updates.                                   *)
(***************************************************************************)
\* the Bot API publishes the message of the send call of inflight[i] as m
send_message_published(i, m) ==
    /\ inflight[i] \in {"post", "post_photo"}
    /\ channel.handlers[i] = None
    /\ channel' = [channel EXCEPT !.newest = Some(m), !.handlers[i] = Some(m)]
    /\ ev' = Event("send_message_published", None)
    /\ UNCHANGED <<cfg, disk, inflight, jobs>>

\* the Bot API publishes the message of the send call of jobs[j] as m
job_send_message_published(j, m) ==
    /\ jobs[j].pc = "sending"
    /\ channel.jobs[j] = None
    /\ channel' = [channel EXCEPT !.newest = Some(m), !.jobs[j] = Some(m)]
    /\ ev' = Event("job_send_message_published", None)
    /\ UNCHANGED <<cfg, disk, inflight, jobs>>

OverlapStart == [user : {Some(0)}, args : {<<>>}, reply_to : {None}]
OverlapUpdates ==
    [user : {Some(0)}, args : {<<"@a">>, <<"0", "@a">>}, reply_to : {None}]

NextOverlap ==
    \/ \E u \in OverlapStart : start(u)
    \/ \E u \in OverlapUpdates : setchannel(u)
    \/ \E u \in OverlapUpdates : post(u)
    \/ \E u \in OverlapUpdates : schedule_in(u)
    \/ \E i \in 1..Len(inflight), m \in MsgIds : send_message_published(i, m)
    \/ \E i \in 1..Len(inflight), m \in MsgIds : post_resume(i, m)
    \/ \E i \in 1..Len(inflight) : post_raise(i)
    \/ \E j \in 1..Len(jobs) : job_callback(j)
    \/ \E j \in 1..Len(jobs), m \in MsgIds : job_send_message_published(j, m)
    \/ \E j \in 1..Len(jobs), m \in MsgIds : job_callback_resume(j, m)
    \/ \E j \in 1..Len(jobs) : job_callback_raise(j)

SpecOverlap == Init /\ [][NextOverlap]_vars

(***************************************************************************)
(* The handlers that write admin_ids, and setchannel, which saves the whole *)
(* record too, with a first user, Founder, whose id addadmin cannot be      *)
(* given, so that two further ids can be added.                             *)
(***************************************************************************)
Founder == MaxUser + 1
FounderUpdates == [user : {Some(Founder)}, args : {<<>>}, reply_to : {None}]
AdminUpdates ==
    [user : Users \cup {Some(Founder)}, args : ArgLists, reply_to : {None}]

NextAdmins ==
    \/ \E u \in FounderUpdates : start(u)
    \/ \E u \in AdminUpdates : addadmin(u)
    \/ \E u \in AdminUpdates : setchannel(u)
    \/ main

SpecAdmins == Init /\ [][NextAdmins]_vars

(***************************************************************************)
(* Properties.                                                             *)
(***************************************************************************)
Privileged == {"setchannel", "addadmin", "post", "post_photo", "schedule_in", "pin_last"}

\* the step changed neither the configuration nor the file and called no save()
NoMutation == cfg = ev.cfg0 /\ disk = ev.disk0 /\ ev.saves = 0

\* the step issued no transport call to the channel and registered no job
NoEffect == ev.calls = <<>> /\ ev.registered = 0

\* the acting user of the step is not in the admin list the step started from
NotInAdmins == ev.user = None \/ ev.user[1] \notin Range(ev.cfg0.admin_ids)

Count(x, l) == Cardinality({i \in 1..Len(l) : l[i] = x})
NoDuplicates(l) == \A i, k \in 1..Len(l) : l[i] = l[k] => i = k

\* the update of a command sent by user with arguments a
Update(user, a) == [user |-> user, args |-> a, reply_to |-> None]

IsIntToken(t) == t \in {"0", "1"}
IntValue(t) == IF t = "0" THEN 0 ELSE 1

\* C1: bootstrap rule. A start by identity X on an empty admin list makes the
\* admin list exactly <<X>> and persists it (the file decodes to that list,
\* the other fields are untouched); a start on a non-empty admin list changes
\* nothing and saves nothing, by whichever identity; and no step empties a
\* non-empty admin list, so every start after the first finds it non-empty.
C1_Bootstrap ==
    /\ (ev.op = "start" /\ ev.user # None /\ ev.cfg0.admin_ids = <<>>) =>
           /\ cfg = [ev.cfg0 EXCEPT !.admin_ids = <<ev.user[1]>>]
           /\ ev.saves = 1
           /\ disk # None
           /\ load(disk) = cfg
    /\ (ev.op = "start" /\ ev.cfg0.admin_ids # <<>>) => NoMutation
    /\ ev.cfg0.admin_ids # <<>> => cfg.admin_ids # <<>>

\* a second start, by an identity other than the bootstrap admin
C1_Witness ==
    /\ ev.op = "start"
    /\ ev.user # None
    /\ Len(ev.cfg0.admin_ids) = 1
    /\ ev.user[1] \notin Range(ev.cfg0.admin_ids)
    /\ load(disk).admin_ids = ev.cfg0.admin_ids

\* C2: authorization gate. A privileged command run by a user who is not in
\* the admin list (the list may be empty) changes nothing, saves nothing,
\* issues no transport call, suspends at none, registers no job, and replies
\* with the admins-only message.
C2_AuthorizationGate ==
    (ev.op \in Privileged /\ NotInAdmins) =>
        /\ NoMutation
        /\ NoEffect
        /\ ev.replies = <<Reply("admins_only")>>

\* a non-admin is turned away while an admin exists, and anyone while none does
C2_Witness ==
    /\ ev.op = "post"
    /\ ev.user # None
    /\ ev.cfg0.admin_ids # <<>>
    /\ NotInAdmins
    /\ ev.cfg0.channel_id # None

\* C3: addadmin is idempotent. In every addadmin step taken by an admin with
\* an integer first argument U, U is in the admin list exactly once
\* afterwards, and if U was in it before, the list is unchanged and nothing
\* is saved; the admin list never holds a duplicate.
C3_AddAdminIdempotent ==
    [][ /\ NoDuplicates(cfg.admin_ids) => NoDuplicates(cfg'.admin_ids)
        /\ (ev'.op = "addadmin" /\ ev'.user # None
                                /\ ev'.user[1] \in Range(cfg.admin_ids)) =>
             \A a \in ArgLists :
                 ( /\ a # <<>>
                   /\ IsIntToken(a[1])
                   /\ addadmin(Update(ev'.user, a)) ) =>
                     LET U == IntValue(a[1]) IN
                     /\ Count(U, cfg'.admin_ids) = 1
                     /\ ev'.replies = <<[msg |-> "admin_added", uid |-> U]>>
                     /\ U \in Range(cfg.admin_ids) =>
                            /\ cfg' = cfg
                            /\ disk' = disk
                            /\ ev'.saves = 0 ]_vars

\* an admin has added an identity that was already in the list
C3_Witness ==
    /\ ev.op = "addadmin"
    /\ ev.replies # <<>>
    /\ ev.replies[1].msg = "admin_added"
    /\ ev.replies[1].uid \in Range(ev.cfg0.admin_ids)
    /\ Len(cfg.admin_ids) = 2

\* C4: post without a configured channel, by any user with any arguments,
\* issues no send call, suspends at none, leaves the last message id alone
\* and saves nothing.
C4_PostWithoutChannel ==
    (ev.op = "post" /\ ev.cfg0.channel_id = None) =>
        /\ ev.calls = <<>>
        /\ cfg.last_channel_message_id = ev.cfg0.last_channel_message_id
        /\ NoMutation

\* an admin posts before any channel is set
C4_Witness ==
    /\ ev.op = "post"
    /\ ev.cfg0.channel_id = None
    /\ ~NotInAdmins
    /\ ev.replies = <<Reply("set_channel_first")>>

\* the arguments joined by single spaces, built from the left
RECURSIVE JoinedBySpaces(_)
JoinedBySpaces(a) ==
    IF Len(a) = 0 THEN ""
    ELSE IF Len(a) = 1 THEN a[1]
    ELSE JoinedBySpaces(SubSeq(a, 1, Len(a) - 1)) \o " " \o a[Len(a)]

\* the step recorded returned as the last message id and persisted the record
PublishedAndPersisted ==
    /\ ev.returned # None
    /\ cfg = [ev.cfg0 EXCEPT !.last_channel_message_id = ev.returned]
    /\ ev.saves = 1
    /\ disk # None
    /\ load(disk) = cfg

C5_Sent ==
    (ev.op = "post_resume") =>
        /\ PublishedAndPersisted
        /\ load(disk).last_channel_message_id = ev.returned
        /\ ev.calls = <<>>
        /\ ev.replies = <<Reply("posted")>>

C5_Call ==
    (ev'.op = "post" /\ ev'.user # None /\ ev'.user[1] \in Range(cfg.admin_ids)
                     /\ cfg.channel_id # None) =>
        \A a \in ArgLists :
            (a # <<>> /\ post(Update(ev'.user, a))) =>
                /\ Len(ev'.calls) = 1
                /\ ev'.calls[1].api = "send_message"
                /\ ev'.calls[1].chat_id = cfg.channel_id
                /\ ev'.calls[1].text = JoinedBySpaces(a)
                /\ inflight' = Append(inflight, "post")
                /\ cfg' = cfg /\ disk' = disk /\ ev'.saves = 0

\* C5: a post by an admin with a channel set and at least one argument issues
\* exactly one send_message, to the channel of the configuration, with the
\* arguments joined by single spaces; when the call returns, the last message
\* id is the id it returned, nothing else changes, no second call is issued,
\* and the record is saved so that load returns the same configuration.
C5_SuccessfulPost == [](C5_Sent) /\ [][C5_Call]_vars

\* a post replaced the id of an earlier publish by the one returned to it
C5_Witness ==
    /\ ev.op = "post_resume"
    /\ ev.cfg0.last_channel_message_id = Some(1)
    /\ ev.returned = Some(2)

\* C6: pin_last with no last message id, with or without a channel, issues no
\* pin call, changes nothing, saves nothing, and is answered with the
\* no-recent-message guidance (with the admins-only message when the invoker
\* does not pass the authorization gate).
C6_PinWithoutPublish ==
    (ev.op = "pin_last" /\ ev.cfg0.last_channel_message_id = None) =>
        /\ NoMutation
        /\ NoEffect
        /\ ev.replies = IF NotInAdmins THEN <<Reply("admins_only")>>
                        ELSE <<Reply("no_recent_message")>>

\* an admin runs pin_last with a channel set before anything was published
C6_Witness ==
    /\ ev.op = "pin_last"
    /\ ev.cfg0.last_channel_message_id = None
    /\ ev.cfg0.channel_id # None
    /\ ~NotInAdmins
    /\ ev.replies = <<Reply("no_recent_message")>>

\* C7: pin_last by an admin with a channel and a last message id issues one
\* pin call with that channel and that id and no reply yet; when the call
\* returns or raises, exactly one reply is sent (success or the explanation),
\* no further call is issued, nothing changes, nothing is saved, and the
\* same command can be dispatched and issue its call again.
C7_PinLast ==
    /\ (ev.op = "pin_last" /\ ~NotInAdmins /\ ev.cfg0.channel_id # None
                           /\ ev.cfg0.last_channel_message_id # None) =>
           /\ ev.calls = <<[api |-> "pin_chat_message",
                            chat_id |-> ev.cfg0.channel_id,
                            message_id |-> ev.cfg0.last_channel_message_id]>>
           /\ ev.replies = <<>>
           /\ ev.registered = 0
           /\ NoMutation
    /\ (ev.op \in {"pin_last_resume", "pin_last_raise"}) =>
           /\ ev.replies = IF ev.op = "pin_last_resume" THEN <<Reply("pinned")>>
                           ELSE <<Reply("pin_error")>>
           /\ NoEffect
           /\ NoMutation
           /\ ENABLED (\E u \in PlainUpdates : pin_last(u) /\ ev'.calls # <<>>)

\* the pin call of an admin failed
C7_Witness ==
    /\ ev.op = "pin_last_raise"
    /\ cfg.channel_id # None
    /\ cfg.last_channel_message_id # None

C8_Registered ==
    (ev'.op = "schedule_in" /\ ev'.user # None /\ ev'.user[1] \in Range(cfg.admin_ids)
                            /\ cfg.channel_id # None) =>
        \A a \in ArgLists :
            (Len(a) >= 2 /\ a[1] = "0" /\ schedule_in(Update(ev'.user, a))) =>
                /\ jobs' = Append(jobs, [text |-> JoinedBySpaces(Tail(a)), when |-> 0,
                                         remaining |-> 0, pc |-> "waiting"])
                /\ ev'.registered = 1
                /\ ev'.calls = <<>>
                /\ cfg' = cfg /\ disk' = disk /\ ev'.saves = 0

C8_Fired ==
    /\ (ev.op = "schedule_in" /\ ev.registered = 1 /\ ev.replies[1].minutes = 0) =>
           /\ jobs # <<>>
           /\ ENABLED job_callback(Len(jobs))
    /\ (ev.op = "job_callback" /\ ev.task[1].when = 0) =>
           /\ Len(ev.calls) = 1
           /\ ev.calls[1].api = "send_message"
           /\ ev.calls[1].chat_id = ev.cfg0.channel_id
           /\ ev.calls[1].text = ev.task[1].text
           /\ ev.calls[1].parse_mode = "HTML"
           /\ NoMutation
    /\ (ev.op = "job_callback_resume" /\ ev.task[1].when = 0) =>
           /\ PublishedAndPersisted
           /\ cfg.admin_ids = ev.cfg0.admin_ids
           /\ cfg.channel_id = ev.cfg0.channel_id
           /\ ev.calls = <<>>

\* C8: schedule_in with "0" minutes and text T by an admin with a channel set
\* registers one job holding T that is due at once and changes nothing else;
\* the fired job issues one send_message of T to the channel of the
\* configuration, as post does, and when the call returns the last message id
\* is the id it returned, the admin list and the channel are unchanged, and
\* the record is saved so that load returns the same configuration.
C8_ScheduleZeroAsPost == [](C8_Fired) /\ [][C8_Registered]_vars

\* a job registered with zero minutes has published and recorded a new id
C8_Witness ==
    /\ ev.op = "job_callback_resume"
    /\ ev.task[1].when = 0
    /\ ev.cfg0.last_channel_message_id = Some(1)
    /\ ev.returned = Some(2)

IsFloatToken(t) == t \in {"0", "1"}

\* the arguments a of command op are missing or ill-typed
InvalidArgs(op, a) ==
    CASE op = "setchannel" -> a = <<>>
      [] op = "addadmin" -> a = <<>> \/ ~IsIntToken(a[1])
      [] op = "post" -> a = <<>>
      [] op = "schedule_in" -> Len(a) < 2 \/ ~IsFloatToken(a[1])
      [] OTHER -> FALSE

\* the replied-to message r carries no photo
NoPhoto(r) == r = None \/ r[1].photo = <<>>

Handler(op, u) ==
    CASE op = "setchannel" -> setchannel(u)
      [] op = "addadmin" -> addadmin(u)
      [] op = "post" -> post(u)
      [] op = "schedule_in" -> schedule_in(u)
      [] op = "post_photo" -> post_photo(u)

UsageReplies ==
    { <<Reply(m)>> : m \in {"usage_setchannel", "usage_addadmin", "uid_not_numeric",
                            "usage_post", "usage_post_photo", "usage_schedule_in",
                            "minutes_not_numeric"} }

NeedsChannel == {"post", "post_photo", "schedule_in"}

\* the updates of command op, sent by user, that fail validation
InvalidUpdates(op, user) ==
    IF op = "post_photo"
    THEN {[user |-> user, args |-> <<>>, reply_to |-> r] : r \in {q \in ReplyTos : NoPhoto(q)}}
    ELSE {Update(user, a) : a \in {b \in ArgLists : InvalidArgs(op, b)}}

\* the step was taken by an admin running one of the commands that validate
\* their input
ValidatingStepByAdmin ==
    /\ ev'.op \in {"setchannel", "addadmin", "post", "post_photo", "schedule_in"}
    /\ ev'.user # None
    /\ ev'.user[1] \in Range(cfg.admin_ids)

Untouched ==
    /\ cfg' = cfg /\ disk' = disk /\ ev'.saves = 0
    /\ ev'.calls = <<>> /\ ev'.registered = 0
    /\ jobs' = jobs /\ inflight' = inflight

\* C9 as stated: a command run by an admin with missing or ill-typed
\* arguments changes nothing, saves nothing, issues no transport call,
\* registers no job, and is answered with a usage reply.
C9_AsStated ==
    [][ ValidatingStepByAdmin =>
          \A u \in InvalidUpdates(ev'.op, ev'.user) :
              Handler(ev'.op, u) => (Untouched /\ ev'.replies \in UsageReplies) ]_vars

\* C9, amended: as stated, except that post, post_photo and schedule_in run
\* while no channel is configured are answered with the set-channel-first
\* guidance instead of the usage reply.
C9_ValidationFailures ==
    [][ ValidatingStepByAdmin =>
          \A u \in InvalidUpdates(ev'.op, ev'.user) :
              Handler(ev'.op, u) =>
                  /\ Untouched
                  /\ IF ev'.op \in NeedsChannel /\ cfg.channel_id = None
                     THEN ev'.replies = <<Reply("set_channel_first")>>
                     ELSE ev'.replies \in UsageReplies ]_vars

\* an admin with a channel set gave schedule_in non-numeric minutes
C9_Witness ==
    /\ ev.op = "schedule_in"
    /\ ~NotInAdmins
    /\ ev.cfg0.channel_id # None
    /\ ev.replies = <<Reply("minutes_not_numeric")>>

\* C10 as stated: every privileged command run by an admin while no channel
\* is configured is answered with the set-channel-first guidance and changes
\* nothing.
C10_AsStated ==
    (ev.op \in Privileged /\ ~NotInAdmins /\ ev.cfg0.channel_id = None) =>
        /\ ev.replies = <<Reply("set_channel_first")>>
        /\ NoMutation

\* C10, amended: post, post_photo and schedule_in run by an admin while no
\* channel is configured are answered with the set-channel-first guidance,
\* and pin_last with the no-recent-message guidance; none of the four changes
\* the configuration, saves, issues a transport call or registers a job.
\* (setchannel and addadmin do not need a channel.)
C10_ChannelNotConfigured ==
    (ev.op \in (NeedsChannel \cup {"pin_last"}) /\ ~NotInAdmins
                                                /\ ev.cfg0.channel_id = None) =>
        /\ ev.replies = IF ev.op = "pin_last" THEN <<Reply("no_recent_message")>>
                        ELSE <<Reply("set_channel_first")>>
        /\ NoMutation
        /\ NoEffect

\* an admin replied to a photo with post_photo before any channel was set
C10_Witness ==
    /\ ev.op = "post_photo"
    /\ ~NotInAdmins
    /\ ev.cfg0.channel_id = None
    /\ ev.replies = <<Reply("set_channel_first")>>

(***************************************************************************)
(* Persistence.                                                            *)
(***************************************************************************)
\* C11: under SpecRoundTrip a configuration changes only by being loaded, so
\* at a load from an existing file the configuration before the load is the
\* one that was saved.  Load after save returns a record equal to the saved
\* one in each of the three fields, an absent field still absent; load
\* without a file returns the default: no channel, no admins, no message id.
C11_RoundTrip ==
    /\ (ev.op = "save") => disk = save(cfg) /\ load(disk) = cfg
    /\ (ev.op = "load" /\ ev.disk0 # None) =>
          /\ cfg.channel_id = ev.cfg0.channel_id
          /\ cfg.admin_ids = ev.cfg0.admin_ids
          /\ cfg.last_channel_message_id = ev.cfg0.last_channel_message_id
    /\ (ev.op = "load" /\ ev.disk0 = None) =>
          /\ cfg.channel_id = None
          /\ cfg.admin_ids = <<>>
          /\ cfg.last_channel_message_id = None

\* a configuration without channel and message id but with a repeated
\* negative admin id came back from the file it was saved to
C11_Witness ==
    /\ ev.op = "load"
    /\ ev.disk0 # None
    /\ ev.cfg0 = BotConfig(None, <<-1, -1>>, None)
    /\ cfg = ev.cfg0

\* C14: in every state, that is wherever a handler or a job has yielded at a
\* transport call or has completed, the file holds the configuration that is
\* in memory, field by field; no file counts as the default configuration.
C14_PersistAfterMutate ==
    /\ load(disk).channel_id = cfg.channel_id
    /\ load(disk).admin_ids = cfg.admin_ids
    /\ load(disk).last_channel_message_id = cfg.last_channel_message_id

\* an admin was added and saved while another handler is suspended at its
\* transport call
C14_Witness ==
    /\ ev.op = "addadmin"
    /\ ev.saves = 1
    /\ cfg.admin_ids # ev.cfg0.admin_ids
    /\ inflight # <<>>
    /\ disk # ev.disk0

(***************************************************************************)
(* How the three fields of the configuration move.                         *)
(***************************************************************************)
IsPrefix(s, t) == Len(s) <= Len(t) /\ SubSeq(t, 1, Len(s)) = s

\* C12: in every step of every interleaving, the admin list of before is a
\* prefix of the admin list of after, so no id is ever removed and an empty
\* list is left at most once; the step that leaves the empty list is a start
\* and makes its sender the only admin; a start that finds an admin changes
\* nothing, so of two first starts only the earlier one bootstraps.
C12_AdminsOnlyGrow ==
    [][ /\ IsPrefix(cfg.admin_ids, cfg'.admin_ids)
        /\ (cfg.admin_ids = <<>> /\ cfg'.admin_ids # <<>>) =>
              /\ ev'.op = "start"
              /\ ev'.user # None
              /\ cfg'.admin_ids = <<ev'.user[1]>>
        /\ (ev'.op = "start" /\ cfg.admin_ids # <<>>) =>
              /\ cfg'.admin_ids = cfg.admin_ids
              /\ disk' = disk ]_vars

\* a second user sent start after the bootstrap, while another handler was
\* suspended at its transport call, and did not become admin
C12_Witness ==
    /\ ev.op = "start"
    /\ ev.user # None
    /\ ev.cfg0.admin_ids # <<>>
    /\ ev.user[1] \notin Range(cfg.admin_ids)
    /\ inflight # <<>>

PublishResumes == {"post_resume", "post_photo_resume", "job_callback_resume"}

\* C13: a step changes last_channel_message_id only when it is the return of
\* a send_message or send_photo call of post, post_photo or a fired job, and
\* then the field holds the id the call returned; a field that is set is
\* never absent afterwards.
C13_LastIdMoves ==
    [][ /\ (cfg'.last_channel_message_id # cfg.last_channel_message_id) =>
              /\ ev'.op \in PublishResumes
              /\ ev'.returned # None
              /\ cfg'.last_channel_message_id = ev'.returned
        /\ (cfg.last_channel_message_id # None) =>
              cfg'.last_channel_message_id # None ]_vars

\* the publish of a fired job returned and replaced an earlier message id
C13_Witness ==
    /\ ev.op = "job_callback_resume"
    /\ ev.cfg0.last_channel_message_id # None
    /\ cfg.last_channel_message_id # ev.cfg0.last_channel_message_id
    /\ cfg.last_channel_message_id = ev.returned

\* C20: while a job is in the queue, and when a job publishes, the channel is
\* set to a non-empty value; a step never clears the channel, and a step that
\* changes it is a setchannel of an admin whose update has a first argument,
\* which is non-empty and becomes the channel.
C20_Channel ==
    /\ [](jobs # <<>> => TruthyStr(cfg.channel_id))
    /\ [](ev.op = "job_callback" =>
             /\ Len(ev.calls) = 1
             /\ TruthyStr(ev.calls[1].chat_id))
    /\ [][ ((cfg.channel_id # None) => cfg'.channel_id # None)
            /\ ((cfg'.channel_id # cfg.channel_id) =>
                  /\ ev'.op = "setchannel"
                  /\ ev'.user # None
                  /\ ev'.user[1] \in Range(cfg.admin_ids)
                  /\ TruthyStr(cfg'.channel_id)
                  /\ \A a \in ArgLists :
                        setchannel(Update(ev'.user, a)) =>
                            a # <<>> /\ cfg'.channel_id = Some(a[1])) ]_vars

\* a job registered with a delay published to the configured channel
C20_Witness ==
    /\ ev.op = "job_callback"
    /\ ev.task # None
    /\ ev.task[1].when > 0
    /\ TruthyStr(ev.calls[1].chat_id)
    /\ ev.calls[1].chat_id = cfg.channel_id

(***************************************************************************)
(* Failure of a publish call.                                              *)
(***************************************************************************)
\* C17: when the send_message call of post or the send_photo call of
\* post_photo raises, the sender gets exactly one reply, the last message id
\* and the file are as before, nothing is saved and no further call is made.
C17_PublishFailure ==
    (ev.op \in {"post_raise", "post_photo_raise"}) =>
        /\ Len(ev.replies) = 1
        /\ cfg.last_channel_message_id = ev.cfg0.last_channel_message_id
        /\ disk = ev.disk0
        /\ ev.saves = 0
        /\ ev.calls = <<>>

(***************************************************************************)
(* The channel of a scheduled job.                                         *)
(***************************************************************************)
\* C16: under SpecRechannel every job was registered while the channel was
\* ScheduledUnder.  When a job fires, its one send_message call goes to the
\* channel the configuration holds at that moment, whatever setchannel made
\* of it since the registration, and carries the job's text.
C16_LiveChannel ==
    (ev.op = "job_callback") =>
        /\ Len(ev.calls) = 1
        /\ ev.calls[1].api = "send_message"
        /\ ev.calls[1].chat_id = ev.cfg0.channel_id
        /\ ev.calls[1].chat_id = cfg.channel_id
        /\ ev.calls[1].text = ev.task[1].text

\* a job registered under ScheduledUnder published to another channel, set
\* by setchannel before the job fired
C16_Witness ==
    /\ ev.op = "job_callback"
    /\ ev.calls[1].chat_id # None
    /\ ev.calls[1].chat_id # Some(ScheduledUnder)
    /\ ev.calls[1].chat_id = cfg.channel_id

(***************************************************************************)
(* Two addadmin handlers.                                                  *)
(***************************************************************************)
\* an addadmin appended a new id to a list that holds the first admin and an
\* id added by an earlier addadmin: both handlers have completed
FirstAdded == ev.cfg0.admin_ids[2]
SecondAdded == ev.replies[1].uid
BothAdded ==
    /\ ev.op = "addadmin"
    /\ ev.saves = 1
    /\ Len(ev.cfg0.admin_ids) = 2

\* C18 as stated: when two addadmin handlers adding two distinct new ids have
\* both completed, one of the two ids is missing from the configuration in
\* memory or from the file.
C18_AsStated ==
    BothAdded =>
        \/ ~({FirstAdded, SecondAdded} \subseteq Range(cfg.admin_ids))
        \/ ~({FirstAdded, SecondAdded} \subseteq Range(load(disk).admin_ids))

\* C18, amended: addadmin has no await between reading admin_ids and saving,
\* so two addadmin handlers run one after the other in either order.  An
\* addadmin that adds a new id appends it to the list as it is, and the file
\* then holds that list; after two of them both ids are in the
\* configuration in memory and in the file.
C18_NoLostUpdate ==
    /\ (ev.op = "addadmin" /\ ev.saves = 1) =>
          /\ cfg.admin_ids = Append(ev.cfg0.admin_ids, ev.replies[1].uid)
          /\ load(disk).admin_ids = cfg.admin_ids
    /\ BothAdded =>
          /\ FirstAdded # SecondAdded
          /\ {FirstAdded, SecondAdded} \subseteq Range(cfg.admin_ids)
          /\ {FirstAdded, SecondAdded} \subseteq Range(load(disk).admin_ids)

\* ids 1 and 0 were added in this order, by two different admins
C18_Witness ==
    /\ BothAdded
    /\ cfg.admin_ids = <<Founder, 1, 0>>
    /\ ev.user = Some(1)
    /\ load(disk).admin_ids = cfg.admin_ids

(***************************************************************************)
(* One-shot jobs.                                                          *)
(***************************************************************************)
NumWaiting(js) == Cardinality({k \in 1..Len(js) : js[k].pc = "waiting"})
SomeWaiting == \E j \in 1..Len(jobs) : jobs[j].pc = "waiting"
SomeSending == \E j \in 1..Len(jobs) : jobs[j].pc = "sending"

\* a schedule_in of an admin, with a channel set, numeric minutes and a text,
\* adds one waiting job with that text and delay to the queue and completes
\* with its reply, without a transport call and without being suspended
C15_Registers ==
    (ev'.op = "schedule_in" /\ ev'.user # None /\ ev'.user[1] \in Range(cfg.admin_ids)
                            /\ TruthyStr(cfg.channel_id)) =>
        \A a \in ArgLists :
            (Len(a) >= 2 /\ IsFloatToken(a[1]) /\ schedule_in(Update(ev'.user, a))) =>
                /\ ev'.registered = 1
                /\ jobs' = Append(jobs, [text |-> JoinedBySpaces(Tail(a)),
                                         when |-> IntValue(a[1]) * 60,
                                         remaining |-> IntValue(a[1]) * 60,
                                         pc |-> "waiting"])
                /\ ev'.replies = <<[msg |-> "scheduled", minutes |-> IntValue(a[1])]>>
                /\ ev'.calls = <<>>
                /\ inflight' = inflight

\* a job that fires was waiting, is past its deadline and makes one
\* send_message call with its text; when the call returns or raises the job
\* leaves the queue and no further call is made
C15_FiresOnce ==
    /\ (ev'.op = "job_callback") =>
          \E j \in 1..Len(jobs) :
              /\ jobs[j].pc = "waiting"
              /\ jobs[j].remaining = 0
              /\ jobs' = [jobs EXCEPT ![j].pc = "sending"]
              /\ Len(ev'.calls) = 1
              /\ ev'.calls[1].api = "send_message"
              /\ ev'.calls[1].text = jobs[j].text
    /\ (ev'.op \in {"job_callback_resume", "job_callback_raise"}) =>
          \E j \in 1..Len(jobs) :
              /\ jobs[j].pc = "sending"
              /\ jobs' = RemoveAt(jobs, j)
              /\ ev'.calls = <<>>
    /\ (ev'.op # "schedule_in") => NumWaiting(jobs') <= NumWaiting(jobs)
    /\ (ev'.op # "job_callback") =>
          Len(jobs') - NumWaiting(jobs') <= Len(jobs) - NumWaiting(jobs)

\* C15: an accepted schedule_in registers exactly one job and replies without
\* waiting for it; a job fires at most once, with one publish attempt of its
\* text, and is gone after the attempt returned or raised; and unless the
\* process restarts, a waiting job eventually fires and a job that has fired
\* eventually ends.
C15_OneShot ==
    /\ [][C15_Registers /\ C15_FiresOnce]_vars
    /\ (SomeWaiting ~> (ev.op = "job_callback" \/ ev.op = "main"))
    /\ (SomeSending ~>
          (ev.op \in {"job_callback_resume", "job_callback_raise", "main"}))

\* a job registered with a delay fired, its publish raised, and the queue is
\* empty
C15_Witness ==
    /\ ev.op = "job_callback_raise"
    /\ ev.task # None
    /\ ev.task[1].when > 0
    /\ ev.calls = <<>>
    /\ jobs = <<>>

(***************************************************************************)
(* Overlapping publishes.                                                  *)
(***************************************************************************)
\* no send call of a post, a post_photo or a job is pending
NoPublishInFlight ==
    /\ \A i \in 1..Len(inflight) : inflight[i] \notin {"post", "post_photo"}
    /\ \A j \in 1..Len(jobs) : jobs[j].pc # "sending"

\* C19: whenever no publish is in flight, last_channel_message_id is the id
\* of the message published to the channel most recently, also after a
\* job's send call and a post's send call were pending at the same time and
\* returned in either order.
C19_LastIsNewest ==
    NoPublishInFlight => cfg.last_channel_message_id = channel.newest

====
